---- MODULE Spec2Model ----
(***************************************************************************)
(* A model of the HSGAA asset archive codec of src/AssetArchive.h: the     *)
(* in-memory archive object, the heap buffers it points at, the archive    *)
(* file as a byte sequence, and the operations create / add_file /         *)
(* write_archive / read_archive / list_entries / extract_file /            *)
(* free_archive.  Integers are serialised little-endian, byte by byte.     *)
(***************************************************************************)
EXTENDS Integers, Sequences, FiniteSets, TLC

(***************************************************************************)
(* Bounds of the model.                                                    *)
(***************************************************************************)
\* hsgaa_add_file is given at most MaxEntries readable files per archive.
MaxEntries == 2
\* Entries of a parsed TOC that the model represents one by one; the
\* entry_count field keeps the number the file declared.
MaxReadEntries == 3
\* Bytes of one parsed name that the model represents.
MaxReadName == 3

(***************************************************************************)
(* Bytes, strings and integers.                                            *)
(***************************************************************************)
Byte == 0..255

\* Values that do not fit the model's integers are all read as Huge.
Huge == 65536 * 32767 + 65535

Min(a, b) == IF a < b THEN a ELSE b

Fill(g, n) == [i \in 1..n |-> g]

Take(s, n) == SubSeq(s, 1, Min(n, Len(s)))

RECURSIVE Sum(_)
Sum(s) == IF s = <<>> THEN 0 ELSE Head(s) + Sum(Tail(s))

Pow256(k) == CASE k = 0 -> 1 [] k = 1 -> 256 [] k = 2 -> 65536 [] OTHER -> 16777216

\* The w bytes of the unsigned integer n (n < 2^31), least significant first,
\* as fwrite(&n, w, 1, f) stores them on a little-endian build.
LE(n, w) == [i \in 1..w |-> IF i <= 4 THEN (n \div Pow256(i - 1)) % 256 ELSE 0]

\* The unsigned integer a little-endian byte sequence holds, as fread leaves
\* it in a uintN_t.
RECURSIVE LowValue(_)
LowValue(b) == IF b = <<>> THEN 0 ELSE Head(b) + 256 * LowValue(Tail(b))

Decode(b) ==
    IF (\E i \in 5..Len(b) : b[i] # 0) \/ (Len(b) >= 4 /\ b[4] >= 128)
    THEN Huge
    ELSE LowValue(Take(b, 4))

\* The C string a char buffer holds: its bytes up to the first NUL.
RECURSIVE CStr(_)
CStr(s) == IF s = <<>> \/ Head(s) = 0 THEN <<>> ELSE <<Head(s)>> \o CStr(Tail(s))

\* strcmp(s, t) == 0
StrEq(s, t) == CStr(s) = CStr(t)

(***************************************************************************)
(* hash32: CRC-32 (reflected polynomial 0xEDB88320, initial value and      *)
(* final XOR 0xFFFFFFFF), computed bit by bit on 32-bit vectors indexed    *)
(* from the least significant bit.                                         *)
(***************************************************************************)
PolyBits == {31, 30, 29, 27, 26, 24, 23, 21, 20, 19, 15, 9, 8, 5}

Bit(n, k) == (n \div (2 ^ k)) % 2

\* A 32-bit value is the set of its one bits; XOR is symmetric difference.
Xor(c, d) == {k \in 0..31 : (k \in c) # (k \in d)}

\* crc = (crc & 1) ? (crc >> 1) ^ POLY : crc >> 1
CrcShift(c) ==
    LET s == {k - 1 : k \in c \ {0}}
    IN  IF 0 \in c THEN Xor(s, PolyBits) ELSE s

RECURSIVE CrcShifts(_, _)
CrcShifts(c, n) == IF n = 0 THEN c ELSE CrcShifts(CrcShift(c), n - 1)

CrcByte(c, b) == CrcShifts(Xor(c, {k \in 0..7 : Bit(b, k) = 1}), 8)

RECURSIVE CrcBytes(_, _)
CrcBytes(c, s) == IF s = <<>> THEN c ELSE CrcBytes(CrcByte(c, Head(s)), Tail(s))

\* The four bytes of the CRC, least significant first.
crc32(s) ==
    LET c == CrcBytes(0..31, s)
        f(k) == IF k \in c THEN 0 ELSE 1
    IN  [i \in 1..4 |->
            f(8*(i-1)) + 2*f(8*(i-1)+1) + 4*f(8*(i-1)+2) + 8*f(8*(i-1)+3)
            + 16*f(8*(i-1)+4) + 32*f(8*(i-1)+5) + 64*f(8*(i-1)+6) + 128*f(8*(i-1)+7)]

hash32(name) == crc32(CStr(name))


(***************************************************************************)
(* Program constants and the byte layout.                                  *)
(***************************************************************************)
\* MAGIC "AAF\x00"
MAGIC == <<65, 65, 70, 0>>

FLAG_ALL_COMPRESSED == 1

\* 4 + 1 + 1 + 8: magic, version, flags, toc_offset.
HeaderLen == 4 + 1 + 1 + 8

\* sizeof(HSGAAEntry): a char pointer and two uint64_t on an LP64 build.
EntrySize == 8 + 8 + 8

(***************************************************************************)
(* The environment: input files, heap addresses, indeterminate bytes.      *)
(***************************************************************************)
\* File paths handed to hsgaa_add_file: "a" and "ab".
Paths == {<<97>>, <<97, 98>>}

\* Names asked of hsgaa_extract_file: the paths and "b", which is never added.
QueryNames == Paths \cup {<<98>>}

Ramp(from, n) == [i \in 1..n |-> from + i - 1]

Unreadable == [readable |-> FALSE, bytes |-> <<>>]

File(b) == [readable |-> TRUE, bytes |-> b]

\* What fopen(file_path, "rb") and fread find for each path.
FileSystems ==
    { [p \in Paths |-> IF p = <<97>> THEN File(Ramp(1, 1)) ELSE Unreadable],
      [p \in Paths |-> IF p = <<97>> THEN File(Ramp(1, EntrySize))
                                      ELSE File(Ramp(7, 3))] }

\* Addresses malloc may return for a data buffer.
AddrSet == {4096, 4128}

\* Values an indeterminate byte (uninitialised, or read through a bad
\* pointer) is taken to have; one value per call.
UninitBytes == {0, 1}

\* How a read of a freed buffer turns out: the stale contents, or a fill byte.
\* (Stale is no byte value.)
Stale == 255 + 1

UafChoices == {Stale, 0}

(***************************************************************************)
(* The heap of data buffers: the allocated addresses and the bytes last    *)
(* stored at each address.                                                 *)
(***************************************************************************)
EmptyHeap == [alloc |-> {}, mem |-> [p \in AddrSet |-> <<>>]]

malloc(h, p) == [h EXCEPT !.alloc = @ \cup {p}]

free(h, p) == [h EXCEPT !.alloc = @ \ {p}]

\* Storing bytes b at address p keeps what lay behind them.
Store(h, p, b) ==
    [h EXCEPT !.mem[p] = b \o SubSeq(@, Len(b) + 1, Len(@))]

\* The n bytes fwrite reads at address p.  A freed buffer is read as the
\* choice u says.
HeapRead(h, p, n, u) ==
    LET stale == Take(h.mem[p], n) \o Fill(0, n - Min(n, Len(h.mem[p])))
    IN  IF p \in h.alloc \/ u = Stale THEN stale ELSE Fill(u, n)

(***************************************************************************)
(* zlib's compress(dest, &destLen, source, sourceLen): destLen holds the   *)
(* size of dest on entry; Z_BUF_ERROR when the stream does not fit.        *)
(***************************************************************************)
\* Adler-32 of the data: its two 16-bit sums.
RECURSIVE AdlerSums(_, _, _)
AdlerSums(s, a, b) ==
    IF s = <<>> THEN [a |-> a, b |-> b]
    ELSE AdlerSums(Tail(s), (a + Head(s)) % 65521, (b + a + Head(s)) % 65521)

\* A zlib stream of the data: the two-byte header, one stored DEFLATE block
\* (final-block byte, LEN, NLEN, the data), the Adler-32 most significant
\* byte first.  Never shorter than 11 bytes.
Deflated(source) ==
    LET n == Len(source)
        ad == AdlerSums(source, 1, 0)
    IN  <<120, 156, 1>> \o LE(n, 2) \o LE(65535 - n, 2) \o source
        \o <<ad.b \div 256, ad.b % 256, ad.a \div 256, ad.a % 256>>

zlib_compress(destLen, source) ==
    LET out == Deflated(source)
    IN  IF destLen < Len(out)
        THEN [ret |-> "Z_BUF_ERROR", destLen |-> destLen, data |-> Take(out, destLen)]
        ELSE [ret |-> "Z_OK", destLen |-> Len(out), data |-> out]

(***************************************************************************)
(* The archive object.  mode tells where the object came from: "none" (no  *)
(* object), "build" (hsgaa_create_archive), "disk" or "crafted"            *)
(* (hsgaa_read_archive of the written archive or of another file).         *)
(***************************************************************************)
NoArchive ==
    [mode |-> "none", entries |-> <<>>, entry_count |-> 0, image_chunks |-> <<>>,
     image_chunk_sizes |-> <<>>, image_chunk_count |-> 0, compress |-> 0]

hsgaa_create_archive(compress) ==
    [mode |-> "build", entries |-> <<>>, entry_count |-> 0, image_chunks |-> <<>>,
     image_chunk_sizes |-> <<>>, image_chunk_count |-> 0, compress |-> compress]

\* if (ret != Z_OK)
CompressFailedNever(ret) == FALSE
CompressFailed(ret) == ret # "Z_OK"

\* entry->offset = image_chunk_count ? image_chunks[image_chunk_count - 1] : 0
EntryOffset(a) ==
    IF a.image_chunk_count # 0 THEN a.image_chunks[a.image_chunk_count] ELSE 0

\* The tail of hsgaa_add_file: the entry and the chunk are appended.
AppendEntry(a, path, data_ptr, size) ==
    [a EXCEPT
        !.entries = Append(@, [name |-> path, offset |-> EntryOffset(a), size |-> size]),
        !.image_chunks = Append(@, data_ptr),
        !.image_chunk_sizes = Append(@, size),
        !.image_chunk_count = @ + 1,
        !.entry_count = @ + 1]

\* hsgaa_add_file on a file that opened: raw_data is malloc'ed at p1 and, when
\* compressing, compressed_data at p2.  The archive and the heap on return.
hsgaa_add_file(a, h, path, raw, p1, p2) ==
    LET h1 == Store(malloc(h, p1), p1, raw)
    IN  IF a.compress # 0
        THEN LET h2 == malloc(h1, p2)
                 \* size_t compressed_size = 0 is passed as destLen
                 z  == zlib_compress(0, raw)
                 h3 == Store(h2, p2, z.data)
             IN  IF CompressFailed(z.ret)
                 THEN [archive |-> a, heap |-> free(free(h3, p1), p2)]
                 ELSE [archive |-> AppendEntry(a, path, p2, z.destLen),
                       heap |-> free(h3, p1)]
        ELSE [archive |-> AppendEntry(a, path, p1, Len(raw)),
              heap |-> free(h1, p1)]


(***************************************************************************)
(* hsgaa_write_archive: the bytes handed to fwrite, in order.              *)
(***************************************************************************)
\* toc_offset = 4 + 1 + 1 + 8 + (sizeof(HSGAAEntry) * archive->entry_count)
TocOffset(a) == HeaderLen + EntrySize * a.entry_count

\* fwrite(VERSION, 1, 1, f) reads its byte at address 1; v is what it finds.
HeaderBytes(a, v) ==
    MAGIC \o <<v>>
          \o <<IF a.compress # 0 THEN FLAG_ALL_COMPRESSED ELSE 0>>
          \o LE(TocOffset(a), 8)

RECURSIVE ChunkBytes(_, _, _, _)
ChunkBytes(a, h, u, i) ==
    IF i > a.image_chunk_count THEN <<>>
    ELSE HeapRead(h, a.image_chunks[i], a.image_chunk_sizes[i], u)
         \o ChunkBytes(a, h, u, i + 1)

\* fwrite(&archive->entry_count, sizeof(uint32_t), 1, f): the first four
\* bytes of the size_t.
TocEntryCountSkewed(a) == Take(LE(a.entry_count + 1, 8), 4)
TocEntryCount(a) == Take(LE(a.entry_count, 8), 4)

TocRecord(e) ==
    hash32(e.name) \o LE(e.offset, 8) \o LE(e.size, 8)
                   \o LE(Len(CStr(e.name)), 4) \o CStr(e.name)

RECURSIVE TocRecords(_, _)
TocRecords(a, i) ==
    IF i > a.entry_count THEN <<>>
    ELSE TocRecord(a.entries[i]) \o TocRecords(a, i + 1)

TocBytes(a) == TocEntryCount(a) \o TocRecords(a, 1)

hsgaa_write_archive(a, h, v, u) ==
    HeaderBytes(a, v) \o ChunkBytes(a, h, u, 1) \o TocBytes(a)

(***************************************************************************)
(* hsgaa_read_archive.  No fread result is tested: what a short read does  *)
(* not fill keeps an indeterminate value, here the byte g.                 *)
(***************************************************************************)
\* fread of n bytes at position pos: the bytes an n-byte object holds
\* afterwards, and the new position.
FRead(file, pos, n, g) ==
    LET avail == IF pos >= Len(file) THEN 0 ELSE Min(n, Len(file) - pos)
    IN  [data |-> (IF avail = 0 THEN <<>> ELSE SubSeq(file, pos + 1, pos + avail))
                  \o Fill(g, n - avail),
         pos  |-> pos + avail]

\* One pass of the loop over the TOC records, from position pos.
ReadEntry(file, pos, g) ==
    LET hsh  == FRead(file, pos, 4, g)
        off  == FRead(file, hsh.pos, 8, g)
        siz  == FRead(file, off.pos, 8, g)
        nlen == FRead(file, siz.pos, 4, g)
        name_len == Decode(nlen.data)
        avail == IF nlen.pos >= Len(file) THEN 0
                 ELSE Min(name_len, Len(file) - nlen.pos)
        shown == Min(avail, MaxReadName)
        buffer == (IF shown = 0 THEN <<>>
                   ELSE SubSeq(file, nlen.pos + 1, nlen.pos + shown))
                  \o Fill(g, Min(name_len, MaxReadName) - shown)
    IN  [entry |-> [name |-> CStr(buffer), offset |-> Decode(off.data),
                    size |-> Decode(siz.data)],
         pos |-> nlen.pos + avail]

RECURSIVE ReadEntries(_, _, _, _)
ReadEntries(file, pos, n, g) ==
    IF n = 0 THEN <<>>
    ELSE LET r == ReadEntry(file, pos, g)
         IN  <<r.entry>> \o ReadEntries(file, r.pos, n - 1, g)

\* strncmp((const char *)magic, MAGIC, 4) != 0
BadMagic(magic) == \E i \in 1..4 : magic[i] # MAGIC[i]

\* The archive hsgaa_read_archive returns for a file that opened, NoArchive
\* for the NULL it returns on a bad magic.  mode is the caller's note.
hsgaa_read_archive(file, g, mode) ==
    LET magic == FRead(file, 0, 4, g)
        version == FRead(file, magic.pos, 1, g)
        flags == FRead(file, version.pos, 1, g)
        toc == FRead(file, flags.pos, 8, g)
        toc_offset == Decode(toc.data)
        count == FRead(file, toc_offset, 4, g)
        entry_count == Decode(count.data)
    IN  IF BadMagic(magic.data) THEN NoArchive
        ELSE [mode |-> mode,
              entries |-> ReadEntries(file, count.pos,
                                      Min(entry_count, MaxReadEntries), g),
              entry_count |-> entry_count,
              image_chunks |-> <<>>, image_chunk_sizes |-> <<>>,
              image_chunk_count |-> 0,
              compress |-> flags.data[1] % 2]

(***************************************************************************)
(* hsgaa_list_entries and hsgaa_extract_file.                              *)
(***************************************************************************)
\* The names printed, in loop order (the represented entries).
hsgaa_list_entries(a) == [i \in 1..Len(a.entries) |-> a.entries[i].name]

\* strcmp(archive->entries[i].name, file_name) == 0
NameMatchesPrefix(entry_name, file_name) ==
    Take(CStr(entry_name), Len(CStr(file_name))) = CStr(file_name)
NameMatches(entry_name, file_name) == StrEq(entry_name, file_name)

\* The index at which the loop of hsgaa_extract_file stops, 0 when it runs out.
FindEntry(a, file_name) ==
    LET hits == {i \in 1..Len(a.entries) : NameMatches(a.entries[i].name, file_name)}
    IN  IF hits = {} THEN 0 ELSE CHOOSE i \in hits : \A j \in hits : i <= j

(***************************************************************************)
(* hsgaa_free_archive: the chunk buffers freed one by one.                 *)
(***************************************************************************)
RECURSIVE FreeChunks(_, _, _)
FreeChunks(a, h, i) ==
    IF i > a.image_chunk_count THEN [heap |-> h, double_free |-> FALSE]
    ELSE LET rest == FreeChunks(a, free(h, a.image_chunks[i]), i + 1)
         IN  [heap |-> rest.heap,
              double_free |-> rest.double_free \/ a.image_chunks[i] \notin h.alloc]


(***************************************************************************)
(* Files hsgaa_read_archive is given besides the archive written by        *)
(* hsgaa_write_archive.                                                    *)
(***************************************************************************)
EmptyArchiveFile == MAGIC \o <<1, 0>> \o LE(HeaderLen, 8) \o LE(0, 4)

CraftedFiles ==
    { <<>>,
      <<65, 65, 70>>,
      <<88, 65, 70, 0>> \o <<1, 0>> \o LE(HeaderLen, 8) \o LE(0, 4),
      MAGIC,
      EmptyArchiveFile,
      MAGIC \o <<1, 0>> \o LE(HeaderLen, 8) \o LE(1, 4),
      MAGIC \o <<1, 0>> \o LE(40, 8) \o LE(0, 4),
      MAGIC \o <<1, 0>> \o LE(HeaderLen, 8) \o LE(1, 4)
            \o hash32(<<97, 98>>) \o LE(0, 8) \o LE(0, 8) \o LE(2, 4) \o <<97>> }

(***************************************************************************)
(* The state.                                                              *)
(***************************************************************************)
VARIABLES
    fs,        \* the input files, by path
    heap,      \* the data buffers
    archive,   \* the archive object the caller holds
    disk,      \* the archive file hsgaa_write_archive wrote
    outfile,   \* the file hsgaa_extract_file wrote
    last,      \* the last call: operation, argument, outcome, lines printed
    ghost,     \* history: paths offered and added, and the same at write time
    crashed    \* the process died (segmentation fault or abort)

vars == <<fs, heap, archive, disk, outfile, last, ghost, crashed>>

NoFile == [exists |-> FALSE, bytes |-> <<>>]

Call(op, arg, res, printed) == [op |-> op, arg |-> arg, res |-> res, printed |-> printed]

NoHistory == [offered |-> <<>>, added |-> <<>>]

Init ==
    /\ fs \in FileSystems
    /\ heap = EmptyHeap
    /\ archive = NoArchive
    /\ disk = NoFile
    /\ outfile = NoFile
    /\ last = Call("start", <<>>, "ok", <<>>)
    /\ ghost = [offered |-> <<>>, added |-> <<>>, written |-> NoHistory, compress |-> 0]
    /\ crashed = FALSE

\* archive = hsgaa_create_archive(c)
Create(c) ==
    /\ ~crashed
    /\ archive.mode = "none"
    /\ ~disk.exists
    /\ ~outfile.exists
    /\ archive' = hsgaa_create_archive(c)
    /\ ghost' = [ghost EXCEPT !.offered = <<>>, !.added = <<>>]
    /\ last' = Call("create", <<>>, "ok", <<>>)
    /\ UNCHANGED <<fs, heap, disk, outfile, crashed>>

\* hsgaa_add_file(archive, path)
AddFile(path, p1, p2) ==
    /\ ~crashed
    /\ archive.mode = "build"
    /\ ~disk.exists
    /\ Len(ghost.offered) < MaxEntries
    /\ p1 \notin heap.alloc
    /\ p2 \notin heap.alloc \cup {p1}
    /\ LET f == fs[path]
           r == hsgaa_add_file(archive, heap, path, f.bytes, p1, p2)
           res == IF ~f.readable THEN "io_error"
                  ELSE IF archive.compress # 0
                          /\ zlib_compress(0, f.bytes).ret # "Z_OK"
                       THEN "compress_error"
                       ELSE "ok"
       IN  /\ archive' = IF f.readable THEN r.archive ELSE archive
           /\ heap' = IF f.readable THEN r.heap ELSE heap
           /\ ghost' = [ghost EXCEPT
                          !.offered = IF f.readable THEN Append(@, path) ELSE @,
                          !.added = IF res = "ok" THEN Append(@, path) ELSE @]
           /\ last' = Call("add", path, res, <<>>)
    /\ UNCHANGED <<fs, disk, outfile, crashed>>

\* hsgaa_write_archive(archive, output_path), called once, before anything
\* is extracted.  opened: fopen succeeded.  The fwrite through the pointer
\* VERSION either faults (segv), the file left created and empty, or finds
\* the byte v.
WriteArchive(opened, segv, v, u) ==
    /\ ~crashed
    /\ archive.mode = "build"
    /\ ~disk.exists
    /\ ~outfile.exists
    /\ IF ~opened
       THEN /\ last' = Call("write", <<>>, "io_error", <<>>)
            /\ UNCHANGED <<disk, ghost, crashed>>
       ELSE /\ disk' = [exists |-> TRUE,
                        bytes |-> IF segv THEN <<>>
                                  ELSE hsgaa_write_archive(archive, heap, v, u)]
            /\ ghost' = [ghost EXCEPT
                           !.written = [offered |-> ghost.offered, added |-> ghost.added],
                           !.compress = archive.compress]
            /\ crashed' = segv
            /\ last' = Call("write", <<>>, IF segv THEN "segv" ELSE "ok", <<>>)
    /\ UNCHANGED <<fs, heap, archive, outfile>>

\* archive = hsgaa_read_archive(path) of a file with the bytes file.
ReadFile(file, mode, opened, g) ==
    /\ ~crashed
    /\ archive.mode = "none"
    /\ LET a == hsgaa_read_archive(file, g, mode)
       IN  /\ archive' = IF opened THEN a ELSE NoArchive
           /\ last' = Call("read", file,
                           IF ~opened THEN "io_error"
                           ELSE IF a.mode = "none" THEN "bad_magic" ELSE "ok", <<>>)
    /\ UNCHANGED <<fs, heap, disk, outfile, ghost, crashed>>

ReadArchive(opened, g) ==
    /\ disk.exists
    /\ ReadFile(disk.bytes, "disk", opened, g)

\* Files from elsewhere are read in a process that has built nothing.
ReadCrafted(file, opened, g) ==
    /\ ~disk.exists
    /\ ~outfile.exists
    /\ ghost.offered = <<>>
    /\ ReadFile(file, "crafted", opened, g)

\* hsgaa_list_entries(archive)
ListEntries ==
    /\ ~crashed
    /\ archive.mode # "none"
    /\ last' = Call("list", <<>>, "ok", hsgaa_list_entries(archive))
    /\ UNCHANGED <<fs, heap, archive, disk, outfile, ghost, crashed>>

\* hsgaa_extract_file(archive, file_name, output_path).  opened: fopen of the
\* output succeeded.  An archive that was read has image_chunks == NULL: the
\* load of image_chunks[i] either faults (segv) or yields garbage, written
\* as no bytes or as the one byte u.
ExtractFile(file_name, opened, segv, u) ==
    /\ ~crashed
    /\ archive.mode # "none"
    /\ LET i == FindEntry(archive, file_name)
       IN  IF i = 0
           THEN /\ last' = Call("extract", file_name, "not_found", <<>>)
                /\ UNCHANGED <<outfile, crashed>>
           ELSE IF ~opened
           THEN /\ last' = Call("extract", file_name, "io_error", <<>>)
                /\ UNCHANGED <<outfile, crashed>>
           ELSE IF i <= archive.image_chunk_count
           THEN /\ outfile' = [exists |-> TRUE,
                               bytes |-> HeapRead(heap, archive.image_chunks[i],
                                                  archive.image_chunk_sizes[i], u)]
                /\ last' = Call("extract", file_name, "ok", <<>>)
                /\ UNCHANGED crashed
           ELSE /\ outfile' = [exists |-> TRUE,
                               bytes |-> IF segv \/ u = Stale THEN <<>> ELSE <<u>>]
                /\ crashed' = segv
                /\ last' = Call("extract", file_name,
                                IF segv THEN "segv" ELSE "ok", <<>>)
    /\ UNCHANGED <<fs, heap, archive, disk, ghost>>

\* hsgaa_free_archive(archive).  Freeing a buffer that is not allocated
\* either aborts the process or goes unnoticed.
FreeArchive(abort) ==
    /\ ~crashed
    /\ archive.mode # "none"
    /\ LET r == FreeChunks(archive, heap, 1)
       IN  /\ heap' = r.heap
           /\ crashed' = (r.double_free /\ abort)
           /\ last' = Call("free", <<>>,
                           IF r.double_free THEN "double_free" ELSE "ok", <<>>)
    /\ archive' = NoArchive
    /\ UNCHANGED <<fs, disk, outfile, ghost>>

Next ==
    \/ \E c \in {0, 1} : Create(c)
    \/ \E path \in Paths, p1, p2 \in AddrSet : AddFile(path, p1, p2)
    \/ \E opened, segv \in BOOLEAN, v \in UninitBytes, u \in UafChoices :
          WriteArchive(opened, segv, v, u)
    \/ \E opened \in BOOLEAN, g \in UninitBytes : ReadArchive(opened, g)
    \/ \E file \in CraftedFiles, opened \in BOOLEAN, g \in UninitBytes :
          ReadCrafted(file, opened, g)
    \/ ListEntries
    \/ \E file_name \in QueryNames, opened, segv \in BOOLEAN, u \in UafChoices :
          ExtractFile(file_name, opened, segv, u)
    \/ \E abort \in BOOLEAN : FreeArchive(abort)

Spec == Init /\ [][Next]_vars

(***************************************************************************)
(* Vocabulary of the properties.                                           *)
(***************************************************************************)
\* The call just made wrote the archive file to its end.
Wrote == last.op = "write" /\ last.res = "ok"

\* An extraction from the archive that was written and read back, whose
\* output file opened, of a name whose file was handed to hsgaa_add_file.
ExtractedAfterRoundTrip ==
    /\ archive.mode = "disk"
    /\ last.op = "extract"
    /\ last.res # "io_error"
    /\ \E i \in 1..Len(ghost.written.offered) : ghost.written.offered[i] = last.arg

\* The extraction produced the file's original bytes.
ExtractedOriginal ==
    /\ ~crashed
    /\ last.res = "ok"
    /\ outfile = [exists |-> TRUE, bytes |-> fs[last.arg].bytes]

\* Where the TOC begins in the written file: after the header and the chunks.
TocStart == HeaderLen + Sum(archive.image_chunk_sizes)

\* The integer in the w bytes after position pos of the written file.
DiskField(pos, w) ==
    IF pos + w <= Len(disk.bytes) THEN Decode(SubSeq(disk.bytes, pos + 1, pos + w))
    ELSE Huge

\* The position after n TOC records that start at pos.
RECURSIVE RecordsEnd(_, _, _)
RecordsEnd(file, pos, n) ==
    IF n = 0 THEN pos ELSE RecordsEnd(file, ReadEntry(file, pos, 0).pos, n - 1)

\* n TOC records lie in the file from position pos on, names included.
RECURSIVE RecordsFit(_, _, _)
RecordsFit(file, pos, n) ==
    \/ n = 0
    \/ /\ pos + 24 <= Len(file)
       /\ LET name_len == Decode(SubSeq(file, pos + 21, pos + 24))
          IN  /\ name_len <= Len(file) - (pos + 24)
              /\ RecordsFit(file, pos + 24 + name_len, n - 1)

\* The file holds a whole header, its TOC offset lies in the file, and the
\* TOC holds as many whole records as it declares.
WellFormed(file) ==
    /\ Len(file) >= HeaderLen
    /\ LET toc_offset == Decode(SubSeq(file, 7, 14))
       IN  /\ toc_offset <= Len(file) - 4
           /\ RecordsFit(file, toc_offset + 4,
                         Decode(SubSeq(file, toc_offset + 1, toc_offset + 4)))

\* The call just made was hsgaa_read_archive on a file that opened.
ReadDone == last.op = "read" /\ last.res # "io_error"

(***************************************************************************)
(* The properties.                                                         *)
(***************************************************************************)
\* C1: round trip without compression.  After add, write and read-back of an
\* archive created with compress = 0, extracting an added name yields the
\* original bytes of its file.
RoundTripUncompressed ==
    (ExtractedAfterRoundTrip /\ ghost.compress = 0) => ExtractedOriginal

\* C2: round trip with compression.  After add, write and read-back of an
\* archive created with compress = 1, extracting an added name yields the
\* original, uncompressed bytes of its file.
RoundTripCompressed ==
    (ExtractedAfterRoundTrip /\ ghost.compress # 0) => ExtractedOriginal

\* C3: offset contiguity.  In a built archive the first entry's offset is the
\* header length 14 and each next offset is the previous offset plus size.
OffsetContiguity ==
    (archive.mode = "build" /\ archive.entry_count > 0) =>
        /\ archive.entries[1].offset = HeaderLen
        /\ \A i \in 1..(archive.entry_count - 1) :
              archive.entries[i + 1].offset
                 = archive.entries[i].offset + archive.entries[i].size

\* C4: the toc_offset of the written header is 14 plus the number of chunk
\* bytes, the position at which the TOC's entry_count stands in the file.
TocOffsetAtToc ==
    Wrote => /\ DiskField(6, 8) = TocStart
             /\ DiskField(DiskField(6, 8), 4) = archive.entry_count

\* C5: a failed hsgaa_add_file (unreadable file, or compression error) leaves
\* the archive object exactly as it was: entries, chunks, sizes, counts, flag.
FailedAddKeepsArchive ==
    [][(last'.op = "add" /\ last'.res # "ok") => archive' = archive]_vars

FailedAddSeen ==
    /\ last.op = "add"
    /\ last.res = "io_error"
    /\ archive.entry_count > 0

\* C6: hsgaa_extract_file of a name that equals no entry's name reports not
\* found, writes no output file, touches no chunk buffer, leaves the archive
\* unchanged and the process alive.
MissingNameNotFound ==
    [][(/\ last'.op = "extract"
        /\ \A i \in 1..Len(archive.entries) :
              ~StrEq(archive.entries[i].name, last'.arg))
       => /\ last'.res = "not_found"
          /\ archive' = archive
          /\ outfile' = outfile
          /\ heap' = heap
          /\ crashed' = crashed]_vars

MissingNameSeen ==
    /\ last.op = "extract"
    /\ last.res = "not_found"
    /\ archive.mode = "build"
    /\ archive.entry_count > 0

\* C7: hsgaa_read_archive of a file whose first four bytes are not the magic
\* (shorter files included) returns no archive.
BadMagicRejected ==
    (ReadDone /\ Take(last.arg, 4) # MAGIC) => archive = NoArchive

\* C8: hsgaa_read_archive of a file with the magic but a truncated or
\* inconsistent header or TOC returns no archive.
TruncatedRejected ==
    (ReadDone /\ Take(last.arg, 4) = MAGIC /\ ~WellFormed(last.arg))
        => archive = NoArchive

\* C9: TOC integrity.  The entry_count hsgaa_write_archive serialises equals
\* the number of files successfully added and the number of records after
\* it, which run to the end of the file and carry the names in insertion
\* order; hsgaa_list_entries prints the names in that order.
TocIntegrity ==
    /\ Wrote =>
          LET n == DiskField(TocStart, 4)
          IN  /\ n = Len(ghost.added)
              /\ RecordsFit(disk.bytes, TocStart + 4, n)
              /\ RecordsEnd(disk.bytes, TocStart + 4, n) = Len(disk.bytes)
              /\ [i \in 1..n |-> ReadEntries(disk.bytes, TocStart + 4, n, 0)[i].name]
                    = ghost.added
    /\ (last.op = "list" /\ archive.mode = "build") => last.printed = ghost.added

TocWritten == Wrote /\ Len(ghost.added) >= 2

\* C10: every chunk pointer a built archive holds refers to a buffer that is
\* still allocated, and hsgaa_free_archive frees no buffer twice.
ChunkBuffersLive ==
    /\ archive.mode = "build" =>
          \A i \in 1..archive.image_chunk_count :
             archive.image_chunks[i] \in heap.alloc
    /\ ~(last.op = "free" /\ last.res = "double_free")

====
